---------------------------- MODULE Spec2Model ----------------------------
(***************************************************************************)
(* A model of jSmearHash (src/jSmearHash/index.js): the BlurHash decoder   *)
(* (decode83, sRGBToLinear, linearTosRGB, signSqr, fastCos,                *)
(* getBlurHashAverageColor, decodeBlurHash) and the sprite player that     *)
(* shares its closure (args, vars, constructor, imageLoaded, calcVars,     *)
(* animate, start, stop, restart, setStartFrame, setLength, dispose).      *)
(*                                                                         *)
(* Numbers.  JavaScript numbers are IEEE-754 doubles.  Every integer the   *)
(* decoder computes (base-83 values, shifts, masks, indices) is far below  *)
(* 2^53 and is modelled exactly.  The fractional quantities (linear-light  *)
(* values, cosine values, phases) are modelled in fixed point with Fix     *)
(* units per 1.0, products rounded down; the two pow-based conversions     *)
(* are tabulated from the source's formulas at that precision.             *)
(*                                                                         *)
(* Strings.  A string is the sequence of its UTF-16 code units; str[k]     *)
(* past the end is JavaScript's undefined, written NoChar.                 *)
(***************************************************************************)
EXTENDS Integers, Sequences, FiniteSets, TLC

VARIABLES
    args,       \* the option bag (index.js:128-146) after argument processing
    vars,       \* the player's variables (index.js:165-187)
    timers,     \* number of pending setTimeout(animate, ...) callbacks
    sheet,      \* the sprite sheet image: "none", "loading" or "loaded"
    out,        \* what the last player operation did: frames shown, callbacks, exception
    req,        \* the last call of a pure function: its name and arguments
    ret,        \* what that call returned
    memo,       \* the first decodeBlurHash call of the run and its result
    run         \* what a page has seen of the run in progress (never read by the player)

state == <<args, vars, timers, sheet, out, req, ret, memo, run>>

---------------------------------------------------------------------------
(* Bounds of the model *)

MaxWidth == 2
MaxHeight == 2
MaxPunch == 3
MaxTimers == 2
MaxFrameArg == 3
MaxStrLen == 3
MaxTurns == 40
MaxTurnsBack == 12

---------------------------------------------------------------------------
(* JavaScript integer operators *)

\* a % b for b > 0: the remainder takes the sign of the dividend
JSRem(a, b) == IF a >= 0 THEN a % b ELSE 0 - ((0 - a) % b)

\* ~~(a / b) for b > 0: the quotient truncated toward zero
TruncDiv(a, b) == IF a >= 0 THEN a \div b ELSE 0 - ((0 - a) \div b)

\* a >> n on a 32-bit integer: arithmetic shift, the floor of a / 2^n
ShiftRight(a, n) == a \div (2 ^ n)

\* a & 255 on a 32-bit two's-complement integer
And255(a) == a % 256

\* a | 1 on a 32-bit integer: sets the lowest bit
Or1(a) == IF a % 2 = 0 THEN a + 1 ELSE a

---------------------------------------------------------------------------
(* Fixed point *)

FixRoot == 10 * 10 * 10
Fix == FixRoot * FixRoot

\* floor(a * b / Fix), computed without leaving 32 bits
Mul(a, b) ==
    LET ah == a \div FixRoot
        al == a % FixRoot
        bh == b \div FixRoot
        bl == b % FixRoot
    IN  ah * bh + ((ah * bl + al * bh + ((al * bl) \div FixRoot)) \div FixRoot)

---------------------------------------------------------------------------
(* decode83 (index.js:3-12) *)

\* '0123456789ABCDEFGHIJKLMNOPQRSTUVWXYZabcdefghijklmnopqrstuvwxyz#$%*+,-.:;=?@[]^_{|}~'
digit ==
    <<48, 49, 50, 51, 52, 53, 54, 55, 56, 57,
      65, 66, 67, 68, 69, 70, 71, 72, 73, 74, 75, 76, 77, 78, 79, 80, 81, 82, 83,
      84, 85, 86, 87, 88, 89, 90,
      97, 98, 99, 100, 101, 102, 103, 104, 105, 106, 107, 108, 109, 110, 111, 112,
      113, 114, 115, 116, 117, 118, 119, 120, 121, 122,
      35, 36, 37, 42, 43, 44, 45, 46, 58, 59, 61, 63, 64, 91, 93, 94, 95,
      123, 124, 125, 126>>

\* str[k] past the end of str: undefined
NoChar == 0 - 1

\* str[k]
CharAt(str, k) == IF k >= 0 /\ k < Len(str) THEN str[k + 1] ELSE NoChar

\* a character the alphabet does not hold counted as the first symbol
indexOfOrZero(ch) ==
    IF \E p \in 1..Len(digit) : digit[p] = ch
    THEN (CHOOSE p \in 1..Len(digit) : digit[p] = ch) - 1
    ELSE 0

\* digit.indexOf(ch): the position of ch in the alphabet, -1 when it has none
\* (undefined is searched for as the text "undefined", which digit does not hold)
indexOf(ch) ==
    IF \E p \in 1..Len(digit) : digit[p] = ch
    THEN (CHOOSE p \in 1..Len(digit) : digit[p] = ch) - 1
    ELSE 0 - 1

RECURSIVE decode83Loop(_, _, _, _)

decode83Loop(str, start, end, value) ==
    IF start < end
    THEN decode83Loop(str, start + 1, end, value * 83 + indexOf(CharAt(str, start)))
    ELSE value


\* the loop stopping one character short of end
decode83StopsShort(str, start, end) == decode83Loop(str, start, end - 1, 0)

decode83(str, start, end) == decode83Loop(str, start, end, 0)

\* the positions of str that decode83(str, start, end) indexes
decode83Reads(start, end) == {k \in start..(end - 1) : TRUE}

---------------------------------------------------------------------------
(* sRGBToLinear, linearTosRGB, signSqr (index.js:14-26) *)

\* d = 3294.6 and e = 269.025, in tenths and in thousandths
d10 == 32946
e1000 == 269025

\* pow(value / e + 0.052132, 2.4) in Fix units, for value = 11, 12, ..., 724
\* (724 is the largest red channel decode83 can give: (83^4 - 1) >> 16)
sRGBToLinearTable ==
  <<3346, 3676, 4025, 4391, 4777, 5181, 5605, 6049, 6512, 6995, 7499, 8023,
    8568, 9134, 9721, 10330, 10960, 11612, 12286, 12983, 13702, 14444, 15208, 15996,
    16807, 17642, 18500, 19382, 20288, 21219, 22174, 23153, 24157, 25187, 26241, 27321,
    28426, 29557, 30713, 31896, 33105, 34340, 35601, 36889, 38204, 39546, 40915, 42311,
    43735, 45186, 46665, 48172, 49706, 51269, 52860, 54480, 56128, 57805, 59511, 61246,
    63010, 64803, 66626, 68478, 70360, 72271, 74213, 76185, 78187, 80219, 82282, 84376,
    86500, 88655, 90841, 93059, 95307, 97587, 99898, 102241, 104616, 107023, 109461, 111932,
    114435, 116970, 119538, 122138, 124771, 127437, 130136, 132868, 135633, 138431, 141263, 144128,
    147027, 149959, 152926, 155926, 158960, 162029, 165132, 168269, 171440, 174647, 177888, 181164,
    184474, 187820, 191201, 194617, 198069, 201556, 205078, 208636, 212230, 215860, 219526, 223227,
    226965, 230739, 234550, 238397, 242280, 246201, 250158, 254151, 258182, 262250, 266355, 270497,
    274677, 278893, 283148, 287440, 291770, 296137, 300543, 304986, 309468, 313988, 318546, 323142,
    327777, 332451, 337163, 341914, 346703, 351532, 356399, 361306, 366252, 371237, 376261, 381325,
    386428, 391572, 396754, 401977, 407239, 412542, 417884, 423267, 428689, 434153, 439656, 445200,
    450785, 456410, 462076, 467783, 473530, 479319, 485149, 491020, 496932, 502885, 508880, 514917,
    520994, 527114, 533275, 539478, 545723, 552010, 558339, 564710, 571124, 577579, 584077, 590618,
    597201, 603826, 610494, 617205, 623959, 630756, 637596, 644478, 651404, 658373, 665386, 672442,
    679541, 686684, 693870, 701101, 708374, 715692, 723054, 730459, 737909, 745403, 752941, 760523,
    768150, 775821, 783536, 791296, 799101, 806951, 814845, 822784, 830768, 838797, 846872, 854991,
    863156, 871366, 879621, 887922, 896268, 904660, 913097, 921580, 930109, 938684, 947305, 955972,
    964685, 973444, 982249, 991100, 999998, 1008943, 1017933, 1026971, 1036055, 1045186, 1054363, 1063587,
    1072859, 1082177, 1091542, 1100954, 1110414, 1119921, 1129475, 1139076, 1148725, 1158421, 1168165, 1177957,
    1187796, 1197683, 1207618, 1217601, 1227632, 1237711, 1247838, 1258013, 1268236, 1278508, 1288828, 1299197,
    1309614, 1320079, 1330593, 1341156, 1351768, 1362428, 1373137, 1383896, 1394703, 1405559, 1416465, 1427419,
    1438423, 1449476, 1460579, 1471731, 1482933, 1494184, 1505485, 1516835, 1528236, 1539686, 1551186, 1562736,
    1574336, 1585986, 1597686, 1609436, 1621237, 1633088, 1644989, 1656941, 1668943, 1680996, 1693099, 1705253,
    1717458, 1729714, 1742020, 1754378, 1766786, 1779246, 1791756, 1804318, 1816931, 1829595, 1842311, 1855078,
    1867896, 1880766, 1893688, 1906661, 1919686, 1932763, 1945891, 1959072, 1972304, 1985588, 1998924, 2012313,
    2025753, 2039246, 2052791, 2066389, 2080039, 2093741, 2107496, 2121303, 2135163, 2149076, 2163041, 2177059,
    2191130, 2205254, 2219431, 2233661, 2247944, 2262280, 2276670, 2291112, 2305608, 2320157, 2334760, 2349416,
    2364126, 2378889, 2393706, 2408577, 2423501, 2438479, 2453511, 2468597, 2483737, 2498931, 2514179, 2529481,
    2544837, 2560248, 2575713, 2591232, 2606806, 2622434, 2638116, 2653854, 2669645, 2685492, 2701393, 2717349,
    2733360, 2749426, 2765546, 2781722, 2797953, 2814239, 2830580, 2846976, 2863428, 2879934, 2896497, 2913114,
    2929787, 2946516, 2963300, 2980140, 2997036, 3013987, 3030994, 3048057, 3065176, 3082351, 3099582, 3116869,
    3134212, 3151611, 3169066, 3186578, 3204146, 3221770, 3239451, 3257188, 3274982, 3292832, 3310739, 3328703,
    3346723, 3364800, 3382934, 3401125, 3419373, 3437678, 3456040, 3474458, 3492934, 3511468, 3530058, 3548706,
    3567411, 3586173, 3604993, 3623871, 3642805, 3661798, 3680848, 3699956, 3719121, 3738345, 3757626, 3776965,
    3796362, 3815817, 3835330, 3854901, 3874530, 3894218, 3913963, 3933767, 3953630, 3973550, 3993529, 4013567,
    4033663, 4053818, 4074031, 4094303, 4114633, 4135023, 4155471, 4175978, 4196544, 4217169, 4237853, 4258596,
    4279398, 4300260, 4321180, 4342160, 4363199, 4384297, 4405455, 4426673, 4447949, 4469286, 4490681, 4512137,
    4533652, 4555227, 4576862, 4598556, 4620310, 4642125, 4663999, 4685933, 4707927, 4729982, 4752096, 4774271,
    4796506, 4818801, 4841157, 4863573, 4886049, 4908586, 4931183, 4953841, 4976560, 4999339, 5022179, 5045080,
    5068041, 5091064, 5114147, 5137291, 5160496, 5183763, 5207090, 5230478, 5253928, 5277439, 5301011, 5324644,
    5348339, 5372095, 5395912, 5419791, 5443732, 5467734, 5491798, 5515923, 5540110, 5564359, 5588670, 5613042,
    5637476, 5661973, 5686531, 5711151, 5735834, 5760578, 5785385, 5810254, 5835185, 5860178, 5885234, 5910352,
    5935533, 5960776, 5986081, 6011449, 6036880, 6062373, 6087929, 6113548, 6139230, 6164974, 6190781, 6216651,
    6242585, 6268581, 6294640, 6320762, 6346947, 6373196, 6399508, 6425882, 6452321, 6478822, 6505387, 6532016,
    6558708, 6585463, 6612282, 6639165, 6666111, 6693121, 6720195, 6747332, 6774533, 6801798, 6829127, 6856520,
    6883977, 6911498, 6939083, 6966732, 6994446, 7022223, 7050065, 7077971, 7105942, 7133976, 7162075, 7190239,
    7218467, 7246760, 7275117, 7303539, 7332026, 7360577, 7389193, 7417874, 7446619, 7475430, 7504305, 7533246,
    7562251, 7591321, 7620457, 7649657, 7678923, 7708254, 7737651, 7767112, 7796639, 7826231, 7855889, 7885612,
    7915401, 7945255, 7975174, 8005160, 8035211, 8065328, 8095510, 8125758, 8156072, 8186452, 8216898, 8247410,
    8277988, 8308632, 8339342, 8370118, 8400960, 8431868, 8462843, 8493883, 8524991, 8556164, 8587404, 8618710,
    8650083, 8681523, 8713029, 8744601, 8776240, 8807946, 8839719, 8871558, 8903464, 8935437, 8967477, 8999583,
    9031757, 9063998, 9096305, 9128680, 9161122, 9193631, 9226207, 9258851, 9291562, 9324340, 9357185, 9390098,
    9423078, 9456126, 9489241, 9522424, 9555674, 9588992, 9622378, 9655831, 9689352, 9722941, 9756598, 9790322,
    9824115, 9857975, 9891904, 9925900, 9959965, 9994097, 10028298, 10062567, 10096904, 10131309, 10165783, 10200325,
    10234935, 10269614, 10304361, 10339177, 10374061, 10409014, 10444035, 10479125, 10514284, 10549511, 10584808, 10620173,
    10655606, 10691109, 10726681, 10762321, 10798030, 10833809, 10869657, 10905573, 10941559, 10977614, 11013738, 11049932,
    11086194, 11122526, 11158928, 11195398, 11231939, 11268548>>

\* value > 10.31475 ? pow(value / e + 0.052132, 2.4) : value / d, for an integer value
sRGBToLinear(value) ==
    IF value * 100000 > 1031475
    THEN sRGBToLinearTable[value - 10]
    ELSE (value * 10 * Fix) \div d10

\* linearTosRGBThresholds[b], b = 1..255: the least v, in Fix units, with
\* e * pow(v, 0.416666) - 13.025 >= b
linearTosRGBThresholds ==
  <<834, 984, 1149, 1328, 1523, 1734, 1961, 2204, 2464, 2741, 3035, 3347,
    3677, 4025, 4392, 4777, 5182, 5606, 6049, 6513, 6996, 7499, 8024, 8569,
    9134, 9722, 10330, 10961, 11613, 12287, 12983, 13702, 14444, 15209, 15997, 16808,
    17642, 18501, 19383, 20289, 21219, 22174, 23154, 24158, 25187, 26242, 27321, 28426,
    29557, 30714, 31896, 33105, 34340, 35602, 36890, 38205, 39547, 40915, 42312, 43735,
    45186, 46665, 48172, 49707, 51270, 52861, 54481, 56129, 57806, 59511, 61246, 63010,
    64803, 66626, 68478, 70360, 72272, 74214, 76186, 78188, 80220, 82283, 84376, 86501,
    88656, 90842, 93059, 95308, 97587, 99899, 102242, 104617, 107023, 109462, 111933, 114435,
    116971, 119539, 122139, 124772, 127438, 130137, 132868, 135633, 138432, 141263, 144129, 147027,
    149960, 152926, 155927, 158961, 162029, 165132, 168269, 171441, 174647, 177888, 181164, 184475,
    187821, 191202, 194618, 198069, 201556, 205079, 208637, 212231, 215860, 219526, 223228, 226966,
    230740, 234551, 238398, 242281, 246201, 250158, 254152, 258183, 262251, 266356, 270498, 274677,
    278894, 283149, 287441, 291771, 296138, 300544, 304987, 309469, 313989, 318547, 323143, 327778,
    332451, 337164, 341914, 346704, 351533, 356400, 361307, 366253, 371238, 376262, 381326, 386429,
    391572, 396755, 401978, 407240, 412543, 417885, 423268, 428690, 434154, 439657, 445201, 450786,
    456411, 462077, 467784, 473531, 479320, 485150, 491021, 496933, 502886, 508881, 514918, 520996,
    527115, 533276, 539479, 545724, 552011, 558340, 564711, 571125, 577580, 584078, 590619, 597202,
    603827, 610496, 617207, 623960, 630757, 637597, 644480, 651406, 658375, 665387, 672443, 679543,
    686685, 693872, 701102, 708376, 715694, 723055, 730461, 737911, 745404, 752942, 760525, 768151,
    775822, 783538, 791298, 799103, 806952, 814847, 822786, 830770, 838799, 846874, 854993, 863158,
    871367, 879623, 887923, 896270, 904662, 913099, 921582, 930111, 938686, 947307, 955974, 964687,
    973446, 982251, 991103>>

\* how many of the thresholds 1..hi are at most v (the thresholds increase)
RECURSIVE CountBelow(_, _, _)
CountBelow(v, lo, hi) ==
    IF lo = hi THEN lo
    ELSE LET mid == (lo + hi + 1) \div 2
         IN  IF linearTosRGBThresholds[mid] <= v
             THEN CountBelow(v, mid, hi)
             ELSE CountBelow(v, lo, mid - 1)

\* ~~(v > 0.00001227 ? e * pow(v, 0.416666) - 13.025 : v * d + 1), v in Fix units.
\* Above the cut the value stays below 1 until the first threshold, so ~~ gives a
\* number <= 0, reported as 0; a value above 255 is reported as 255: in both
\* cases that is what the clamped store keeps.  At or below the cut, v * d + 1
\* lies in [1, 2) for v >= 0 and below 1 for v < 0.
linearTosRGB(v) ==
    IF v > 12
    THEN CountBelow(v, 0, Len(linearTosRGBThresholds))
    ELSE IF v >= 0 THEN 1
    ELSE LET w == 0 - v
             tenths == ((w \div Fix) * d10) + Mul(w % Fix, d10)
         IN  TruncDiv(10 - tenths, 10)

\* the store into a Uint8ClampedArray element
Clamp8(n) == IF n < 0 THEN 0 ELSE IF n > 255 THEN 255 ELSE n

\* (x < 0 ? -1 : 1) * x * x, on an integer
signSqr(x) == (IF x < 0 THEN 0 - 1 ELSE 1) * x * x

\* the same on a value in Fix units
signSqrFix(x) == (IF x < 0 THEN 0 - 1 ELSE 1) * Mul(x, x)

---------------------------------------------------------------------------
(* fastCos (index.js:32-39) *)

\* Math.PI and PI * 2 in Fix units
PI == 3141593
PI2 == PI * 2

\* one subtraction at most, an if in place of the while
fastCosReduceOnce(x) == IF x > PI THEN x - PI2 ELSE x

\* while (x > PI) x -= PI2
RECURSIVE fastCosReduce(_)
fastCosReduce(x) == IF x > PI THEN fastCosReduce(x - PI2) ELSE x

\* the number of times the body of that loop runs
RECURSIVE fastCosSteps(_)
fastCosSteps(x) == IF x > PI THEN 1 + fastCosSteps(x - PI2) ELSE 0

\* 1.27323954 * x - 0.405284735 * signSqr(x), then 0.225 * (signSqr(cos) - cos) + cos
fastCosPoly(x) ==
    LET cos == Mul(1273240, x) - Mul(405285, signSqrFix(x))
    IN  Mul(225000, signSqrFix(cos) - cos) + cos

\* the phase shift x += PI / 2 left out
fastCosNoShift(x) == fastCosPoly(fastCosReduce(x))

fastCos(x) == fastCosPoly(fastCosReduce(x + (PI \div 2)))

\* one call of fastCos, with the argument of the polynomial and the number of
\* iterations of the loop next to the value returned
fastCosCall(x) ==
    [shifted |-> x + (PI \div 2),
     reduced |-> fastCosReduce(x + (PI \div 2)),
     steps |-> fastCosSteps(x + (PI \div 2)),
     value |-> fastCos(x)]

---------------------------------------------------------------------------
(* getBlurHashAverageColor (index.js:46-49) *)

getBlurHashAverageColor(blurHash) ==
    LET val == decode83(blurHash, 2, 6)
    IN  <<ShiftRight(val, 16), And255(ShiftRight(val, 8)), And255(val)>>

---------------------------------------------------------------------------
(* decodeBlurHash (index.js:59-126) *)

\* an omitted argument is the empty tuple, a given one <<n>>; ToInt32(undefined) = 0
ToInt32(opt) == IF Len(opt) = 0 THEN 0 ELSE opt[1]

\* the quotient taken where the remainder belongs
numXFromQuotient(sizeFlag) == TruncDiv(sizeFlag, 9) + 1

\* index.js:60-63
sizeFlagOf(blurHash) == decode83(blurHash, 0, 1)
numXOf(sizeFlag) == JSRem(sizeFlag, 9) + 1
numYFromRemainder(sizeFlag) == JSRem(sizeFlag, 9) + 1
numYOf(sizeFlag) == TruncDiv(sizeFlag, 9) + 1

\* an omitted punch taken from a variable of the enclosing closure
punchFactorShared(punch) == Or1(IF Len(punch) = 0 THEN vars.frame ELSE punch[1])

\* index.js:80, (punch | 1): the multiplier applied to (q + 1) / 13446
punchFactor(punch) == Or1(ToInt32(punch))

\* index.js:80, in Fix units
maximumValueOf(blurHash, punch) ==
    ((decode83(blurHash, 1, 2) + 1) * punchFactor(punch) * Fix) \div 13446

\* the AC fields counted from the average colour's position
acFieldFromTwo(i) == [start |-> 2 + i * 2, end |-> 4 + i * 2]

\* index.js:90: the positions decode83 is given for AC coefficient i
acField(i) == [start |-> 4 + i * 2, end |-> 6 + i * 2]

\* the middle digit without its % 19
acDigitsNoWrap(value) ==
    <<TruncDiv(value, 19 * 19), TruncDiv(value, 19), JSRem(value, 19)>>

\* index.js:91-93: the three base-19 digits of an AC field's value
acDigits(value) ==
    <<TruncDiv(value, 19 * 19), JSRem(TruncDiv(value, 19), 19), JSRem(value, 19)>>

\* index.js:82-94: new Float64Array(size * 3), then the DC and the AC stores.
\* A store at an index the array does not have is dropped.
colorsOf(blurHash, size, maximumValue) ==
    LET averageColor == getBlurHashAverageColor(blurHash)
    IN  [k \in 0..(size * 3 - 1) |->
            IF k < 3
            THEN sRGBToLinear(averageColor[k + 1])
            ELSE LET value == decode83(blurHash, acField(k \div 3).start,
                                       acField(k \div 3).end)
                 IN  signSqr(acDigits(value)[(k % 3) + 1] - 9) * maximumValue]

\* index.js:107-116: the sums over the basis, for the pixel (x, y)
RECURSIVE sumI(_, _, _, _, _, _)
sumI(colors, numX, xw, basisY, j, ia) ==
    LET i == ia[1]
        basis == Mul(fastCos(xw * i), basisY)
        colorIndex == (i + j * numX) * 3
    IN  IF i < numX
        THEN sumI(colors, numX, xw, basisY, j,
                  <<i + 1,
                    ia[2] + Mul(colors[colorIndex], basis),
                    ia[3] + Mul(colors[colorIndex + 1], basis),
                    ia[4] + Mul(colors[colorIndex + 2], basis)>>)
        ELSE ia

RECURSIVE sumJ(_, _, _, _, _, _)
sumJ(colors, numX, numY, xw, yh, ja) ==
    LET j == ja[1]
        inner == sumI(colors, numX, xw, fastCos(yh * j), j, <<0, ja[2], ja[3], ja[4]>>)
    IN  IF j < numY
        THEN sumJ(colors, numX, numY, xw, yh, <<j + 1, inner[2], inner[3], inner[4]>>)
        ELSE ja

\* index.js:96-97: the length of the pixel buffer
bufferLength(width, height) == (width * 4) * height

\* a row stride of one pixel instead of one row
pixelIndexNoStride(x, y, bytesPerRow) == 4 * x + y * 4

\* index.js:118
pixelIndexOf(x, y, bytesPerRow) == 4 * x + y * bytesPerRow

\* index.js:99-124: the pixel loop; n counts the iterations done, p is the
\* buffer and the number of stores made at each index
RECURSIVE pixelLoop(_, _, _, _, _, _, _)
pixelLoop(colors, numX, numY, width, height, n, p) ==
    IF width <= 0 \/ height <= 0 \/ n >= width * height
    THEN p
    ELSE LET y == n \div width
             x == n % width
             yh == (PI * y) \div height
             xw == (PI * x) \div width
             rgb == sumJ(colors, numX, numY, xw, yh, <<0, 0, 0, 0>>)
             bytesPerRow == width * 4
             pixelIndex == pixelIndexOf(x, y, bytesPerRow)
             stored == <<Clamp8(linearTosRGB(rgb[2])), Clamp8(linearTosRGB(rgb[3])),
                         Clamp8(linearTosRGB(rgb[4])), 255>>
             hit == {pixelIndex + c : c \in 0..3} \cap DOMAIN p.pixels
         IN  pixelLoop(colors, numX, numY, width, height, n + 1,
                 [pixels |-> [k \in DOMAIN p.pixels |->
                                 IF k \in hit THEN stored[k - pixelIndex + 1] ELSE p.pixels[k]],
                  stores |-> [k \in DOMAIN p.stores |->
                                 IF k \in hit THEN p.stores[k] + 1 ELSE p.stores[k]],
                  outside |-> p.outside \cup ({pixelIndex + c : c \in 0..3} \ DOMAIN p.pixels)])

\* The whole call.  threw names the exception that ended it ("none": it
\* returned); pixels is the buffer returned, indexed from 0.  The other fields
\* record what the call did on the way: the header values, the coefficient
\* grid, the fields decode83 was called on, in the order of the calls
\* (index.js:60, 80, 47, 90), and the positions and indices it used.
decodeBlurHash(blurHash, width, height, punch) ==
    LET sizeFlag == sizeFlagOf(blurHash)
        numX == numXOf(sizeFlag)
        numY == numYOf(sizeFlag)
        size == numX * numY
        maximumValue == maximumValueOf(blurHash, punch)
        colors == colorsOf(blurHash, size, maximumValue)
        length == bufferLength(width, height)
        acValues == [i \in 1..(size - 1) |->
                        decode83(blurHash, acField(i).start, acField(i).end)]
        fields == <<[start |-> 0, end |-> 1], [start |-> 1, end |-> 2],
                    [start |-> 2, end |-> 6]>>
                  \o [i \in 1..(size - 1) |-> acField(i)]
        hashReads == UNION {decode83Reads(fields[n].start, fields[n].end) :
                               n \in 1..Len(fields)}
        colorStores == (0..2) \cup {i * 3 + c : i \in 1..(size - 1), c \in 0..2}
        colorLoads == IF width > 0 /\ height > 0
                      THEN {(i + j * numX) * 3 + c :
                                i \in 0..(numX - 1), j \in 0..(numY - 1), c \in 0..2}
                      ELSE {}
        header == [sizeFlag |-> sizeFlag, numX |-> numX, numY |-> numY, size |-> size,
                   punchFactor |-> punchFactor(punch), maximumValue |-> maximumValue,
                   colors |-> colors, acValues |-> acValues, hashLen |-> Len(blurHash),
                   fields |-> fields, hashReads |-> hashReads,
                   colorStores |-> colorStores,
                   colorLoads |-> colorLoads]
    IN  IF length < 0
        THEN [threw |-> "RangeError", returned |-> FALSE, head |-> header,
              pixels |-> <<>>, stores |-> <<>>, outside |-> {}]
        ELSE LET p == pixelLoop(colors, numX, numY, width, height, 0,
                                [pixels |-> [k \in 0..(length - 1) |-> 0],
                                 stores |-> [k \in 0..(length - 1) |-> 0],
                                 outside |-> {}])
             IN  [threw |-> "none", returned |-> TRUE, head |-> header,
                  pixels |-> p.pixels, stores |-> p.stores, outside |-> p.outside]

---------------------------------------------------------------------------
(* The player: args, vars (index.js:128-187) *)

\* A value that may be false is a tuple: <<>> is false, <<n>> is the number n.
IsFalse(opt) == Len(opt) = 0
Num(opt) == opt[1]

\* index.js:165-187
varsInit ==
    [startFrame |-> 0, endFrame |-> 0, length |-> 0, maxFrames |-> 0,
     noOfFramesToPlay |-> 0, frame |-> 1, frames |-> 0, stopRequested |-> FALSE,
     dispose |-> FALSE, status |-> "stopped"]

\* nothing shown, no callback, no exception
outNone == [shown |-> <<>>, calls |-> <<>>, threw |-> "none", decodes |-> 0]

\* the end frame taken one too far: startFrame + length
calcVarsOnePast(a, v) ==
    LET start0 == IF IsFalse(a.startFrame) THEN 1
                  ELSE IF Num(a.startFrame) < 0 THEN 1 ELSE Num(a.startFrame)
        reset == ~IsFalse(a.length) /\ start0 + Num(a.length) - 1 > v.maxFrames
        startFrame == IF reset THEN 1 ELSE start0
        length == IF IsFalse(a.length) \/ reset THEN v.maxFrames ELSE Num(a.length)
        endFrame == startFrame + length
    IN  [v EXCEPT !.startFrame = startFrame,
                  !.length = length,
                  !.noOfFramesToPlay = startFrame + (length - 1),
                  !.endFrame = IF endFrame > v.maxFrames THEN v.maxFrames ELSE endFrame]

\* index.js:391-432.  parseInt of an integer is the integer.
calcVars(a, v) ==
    LET start0 == IF IsFalse(a.startFrame) THEN 1
                  ELSE IF Num(a.startFrame) < 0 THEN 1 ELSE Num(a.startFrame)
        reset == ~IsFalse(a.length) /\ start0 + Num(a.length) - 1 > v.maxFrames
        startFrame == IF reset THEN 1 ELSE start0
        length == IF IsFalse(a.length) \/ reset THEN v.maxFrames ELSE Num(a.length)
        endFrame == startFrame + length - 1
    IN  [v EXCEPT !.startFrame = startFrame,
                  !.length = length,
                  !.noOfFramesToPlay = startFrame + (length - 1),
                  !.endFrame = IF endFrame > v.maxFrames THEN v.maxFrames ELSE endFrame]

\* the setTimeout of the repeat branch (index.js:518) left out
animateNoRearm(a, v) ==
    IF v.stopRequested
    THEN [vars |-> [v EXCEPT !.stopRequested = FALSE, !.status = "stopped"],
          scheduled |-> 0, shown |-> <<>>, calls |-> <<"onStop">>, threw |-> "none"]
    ELSE LET frame == IF a.repeat /\ v.frame > v.endFrame THEN v.startFrame ELSE v.frame
             next == frame + 1
         IN  IF ~(frame - 1 >= 0 /\ frame - 1 < v.frames)
             THEN [vars |-> [v EXCEPT !.frame = frame, !.status = "playing"],
                   scheduled |-> 0, shown |-> <<>>, calls |-> <<>>, threw |-> "TypeError"]
             ELSE IF next <= v.endFrame
             THEN [vars |-> [v EXCEPT !.frame = next, !.status = "playing"],
                   scheduled |-> 1, shown |-> <<frame>>, calls |-> <<"onProgress">>,
                   threw |-> "none"]
             ELSE IF a.repeat
             THEN [vars |-> [v EXCEPT !.frame = v.startFrame, !.status = "playing"],
                   scheduled |-> 0, shown |-> <<frame>>,
                   calls |-> <<"onProgress", "onRepeat">>, threw |-> "none"]
             ELSE [vars |-> [v EXCEPT !.frame = v.startFrame, !.status = "stopped"],
                   scheduled |-> 0, shown |-> <<frame>>,
                   calls |-> <<"onProgress", "onComplete">>, threw |-> "none"]

\* index.js:449-527.  The test of this.dispose reads a property of the global
\* object, which the page does not define: it is never true.  v.frames is the
\* length of vars.frames; indexing it outside 0..frames-1 gives undefined, and
\* framePos[0] then throws a TypeError.  The result has the new vars, the timers
\* scheduled, the frames shown, the callbacks invoked and the exception, if any.
animate(a, v) ==
    IF v.stopRequested
    THEN [vars |-> [v EXCEPT !.stopRequested = FALSE, !.status = "stopped"],
          scheduled |-> 0, shown |-> <<>>, calls |-> <<"onStop">>, threw |-> "none"]
    ELSE LET frame == IF a.repeat /\ v.frame > v.endFrame THEN v.startFrame ELSE v.frame
             next == frame + 1
         IN  IF ~(frame - 1 >= 0 /\ frame - 1 < v.frames)
             THEN [vars |-> [v EXCEPT !.frame = frame, !.status = "playing"],
                   scheduled |-> 0, shown |-> <<>>, calls |-> <<>>, threw |-> "TypeError"]
             ELSE IF next <= v.endFrame
             THEN [vars |-> [v EXCEPT !.frame = next, !.status = "playing"],
                   scheduled |-> 1, shown |-> <<frame>>, calls |-> <<"onProgress">>,
                   threw |-> "none"]
             ELSE IF a.repeat
             THEN [vars |-> [v EXCEPT !.frame = v.startFrame, !.status = "playing"],
                   scheduled |-> 1, shown |-> <<frame>>,
                   calls |-> <<"onProgress", "onRepeat">>, threw |-> "none"]
             ELSE [vars |-> [v EXCEPT !.frame = v.startFrame, !.status = "stopped"],
                   scheduled |-> 0, shown |-> <<frame>>,
                   calls |-> <<"onProgress", "onComplete">>, threw |-> "none"]

---------------------------------------------------------------------------
(* What a page sees of a run: a record kept next to the player, which the
   player never reads.
     last     the operation that made the last step
     called   an operation of the player has run since the constructor
     plain    only start, stop, restart and timers so far (no setStartFrame,
              setLength or dispose)
     clean    the run in progress was begun on a loaded sheet at the start
              frame, with no stop request pending, and no stop, setStartFrame
              or setLength was called since
     frames   the frames displayed in the current pass of a clean run
     done     the number of onComplete calls of the run (counted up to 2)
     halting  stop was called while status was 'playing' and neither start nor
              restart was called since
     halts    the number of onStop calls since then (counted up to 2) *)

runNone ==
    [last |-> "none", called |-> FALSE, plain |-> TRUE, clean |-> FALSE,
     frames |-> <<>>, done |-> 0, halting |-> FALSE, halts |-> 0]

\* the number of times a callback is in a sequence of calls
Count(calls, name) == Cardinality({k \in 1..Len(calls) : calls[k] = name})

Min2(n) == IF n > 2 THEN 2 ELSE n

\* the record after a step of operation op, from the step's own effects
Observe(op) ==
    LET began == \/ (op \in {"start", "imageLoaded"} /\ Count(out'.calls, "onStart") > 0)
                 \/ (op = "restart" /\ vars.status = "stopped")
        r0 == [run EXCEPT !.last = op,
                            !.called = (run.called \/ op # "decodeBlurHash")]
        r1 == IF began
              THEN [r0 EXCEPT !.clean = /\ ~vars.stopRequested /\ sheet' = "loaded"
                                        /\ (op = "start" => vars.frame = vars.startFrame),
                              !.frames = IF Count(out'.calls, "onRepeat") > 0 THEN <<>> ELSE out'.shown,
                              !.done = Count(out'.calls, "onComplete"),
                              !.halting = FALSE, !.halts = 0]
              ELSE IF op = "restart"
              THEN [r0 EXCEPT !.frames = <<>>, !.halting = FALSE, !.halts = 0]
              ELSE IF op = "start"
              THEN [r0 EXCEPT !.halting = FALSE, !.halts = 0]
              ELSE IF op = "tick"
              THEN [r0 EXCEPT !.frames = IF Count(out'.calls, "onRepeat") > 0 THEN <<>>
                                         ELSE run.frames \o out'.shown,
                              !.done = Min2(run.done + Count(out'.calls, "onComplete")),
                              !.halts = Min2(run.halts + Count(out'.calls, "onStop"))]
              ELSE IF op = "stop"
              THEN [r0 EXCEPT !.clean = FALSE,
                              !.halting = (run.halting \/ vars.status = "playing"),
                              !.halts = IF run.halting THEN run.halts ELSE 0]
              ELSE IF op \in {"setStartFrame", "setLength"}
              THEN [r0 EXCEPT !.clean = FALSE, !.plain = FALSE]
              ELSE IF op = "dispose"
              THEN [r0 EXCEPT !.plain = FALSE]
              ELSE r0
    IN  run' = IF r1.clean THEN r1 ELSE [r1 EXCEPT !.frames = <<>>, !.done = 0]

---------------------------------------------------------------------------
(* The player's operations *)

\* The options a page may pass: <<>> is an option left out (false).
Configs ==
    [hashList : {<<>>, <<0>>, <<2>>}, container : BOOLEAN,
     columns : {<<>>, <<3>>}, rows : {<<>>, <<1>>}, timing : {<<>>, <<50>>},
     autoStart : BOOLEAN, repeat : BOOLEAN,
     startFrame : {<<>>, <<2>>}, length : {<<>>, <<1>>, <<2>>, <<4>>}]

\* the test of an empty hash list (index.js:236) left out
CompleteOrEmpty(c) ==
    /\ ~IsFalse(c.hashList) /\ c.container /\ ~IsFalse(c.columns)
    /\ ~IsFalse(c.rows) /\ ~IsFalse(c.timing)

\* the options the constructor accepts (index.js:199-239)
Complete(c) ==
    /\ ~IsFalse(c.hashList) /\ c.container /\ ~IsFalse(c.columns)
    /\ ~IsFalse(c.rows) /\ ~IsFalse(c.timing) /\ Num(c.hashList) # 0

\* the pages modelled: every complete one, and each with one option missing
\* or an empty hash list
Pages ==
    {c \in Configs :
        \/ Complete(c)
        \/ /\ ~c.autoStart /\ c.repeat /\ IsFalse(c.startFrame) /\ IsFalse(c.length)
           /\ Cardinality({f \in {"hashList", "columns", "rows", "timing"} :
                              IsFalse(c[f])} \cup (IF c.container THEN {} ELSE {"container"})
                          \cup (IF c.hashList = <<0>> THEN {"empty"} ELSE {})) = 1}

\* index.js:191-282: false < 1, so a start frame left out becomes 1.  Each hash
\* of the list is decoded (index.js:266) onto the sheet before the image loads.
constructor(c) ==
    LET a == [c EXCEPT !.startFrame =
                 IF IsFalse(c.startFrame) THEN <<1>>
                 ELSE IF Num(c.startFrame) < 1 THEN <<1>> ELSE c.startFrame]
    IN  IF Complete(c)
        THEN [args |-> a, sheet |-> "loading",
              out |-> [outNone EXCEPT !.decodes = Num(c.hashList)]]
        ELSE [args |-> a, sheet |-> "none",
              out |-> [outNone EXCEPT !.calls = <<"console.error">>]]

\* index.js:287-384, the image's onload
imageLoaded ==
    /\ sheet = "loading"
    /\ sheet' = "loaded"
    /\ LET maxFrames == Num(args.columns) * Num(args.rows)
           v1 == calcVars(args, [vars EXCEPT !.maxFrames = maxFrames])
           v2 == [v1 EXCEPT !.frames = vars.frames + maxFrames, !.frame = v1.startFrame]
           r == animate(args, v2)
       IN  IF ~(v2.startFrame - 1 >= 0 /\ v2.startFrame - 1 < v2.frames)
           THEN /\ vars' = v2
                /\ timers' = timers
                /\ out' = [outNone EXCEPT !.threw = "TypeError"]
           ELSE IF args.autoStart
           THEN /\ timers + r.scheduled <= MaxTimers
                /\ vars' = r.vars
                /\ timers' = timers + r.scheduled
                /\ out' = [outNone EXCEPT !.shown = r.shown,
                                         !.calls = <<"onStart">> \o r.calls,
                                         !.threw = r.threw]
           ELSE /\ vars' = v2
                /\ timers' = timers
                /\ out' = outNone
    /\ UNCHANGED <<args, req, ret, memo>>
    /\ Observe("imageLoaded")

\* index.js:565-575
start ==
    /\ IF vars.status # "playing"
       THEN LET r == animate(args, vars)
            IN  /\ timers + r.scheduled <= MaxTimers
                /\ vars' = r.vars
                /\ timers' = timers + r.scheduled
                /\ out' = [outNone EXCEPT !.shown = r.shown,
                                         !.calls = <<"onStart">> \o r.calls,
                                         !.threw = r.threw]
       ELSE /\ out' = outNone
            /\ UNCHANGED <<vars, timers>>
    /\ UNCHANGED <<args, sheet, req, ret, memo>>
    /\ Observe("start")

\* index.js:581-584
stop ==
    /\ vars' = [vars EXCEPT !.stopRequested = TRUE]
    /\ out' = outNone
    /\ UNCHANGED <<args, timers, sheet, req, ret, memo>>
    /\ Observe("stop")

\* index.js:553-561
restart ==
    /\ LET v1 == [vars EXCEPT !.frame = vars.startFrame]
           r == animate(args, v1)
       IN  IF vars.status = "stopped"
           THEN /\ timers + r.scheduled <= MaxTimers
                /\ vars' = r.vars
                /\ timers' = timers + r.scheduled
                /\ out' = [outNone EXCEPT !.shown = r.shown, !.calls = r.calls,
                                         !.threw = r.threw]
           ELSE /\ vars' = v1
                /\ timers' = timers
                /\ out' = outNone
    /\ UNCHANGED <<args, sheet, req, ret, memo>>
    /\ Observe("restart")

\* a pending setTimeout(animate, fTime) fires (index.js:508, 518)
tick ==
    /\ timers > 0
    /\ LET r == animate(args, vars)
       IN  /\ vars' = r.vars
           /\ timers' = timers - 1 + r.scheduled
           /\ out' = [outNone EXCEPT !.shown = r.shown, !.calls = r.calls,
                                    !.threw = r.threw]
    /\ UNCHANGED <<args, sheet, req, ret, memo>>
    /\ Observe("tick")

\* index.js:626-638
setStartFrame(v) ==
    /\ LET a1 == [args EXCEPT !.startFrame = <<v>>, !.length = <<>>]
       IN  /\ args' = a1
           /\ vars' = calcVars(a1, [vars EXCEPT !.frame = v])
    /\ out' = outNone
    /\ UNCHANGED <<timers, sheet, req, ret, memo>>
    /\ Observe("setStartFrame")

\* index.js:640-651
setLength(v) ==
    /\ LET a1 == [args EXCEPT !.length = <<v>>]
       IN  /\ args' = a1
           /\ vars' = calcVars(a1, [vars EXCEPT !.frame = vars.startFrame])
    /\ out' = outNone
    /\ UNCHANGED <<timers, sheet, req, ret, memo>>
    /\ Observe("setLength")

\* index.js:653-662: the delete statements name bindings that cannot be deleted
dispose ==
    /\ vars' = [vars EXCEPT !.dispose = TRUE]
    /\ out' = outNone
    /\ UNCHANGED <<args, timers, sheet, req, ret, memo>>
    /\ Observe("dispose")

---------------------------------------------------------------------------
(* The calls modelled *)

\* the character with alphabet index i, and the string with the given indices
Sym(i) == digit[i + 1]
Text(ix) == [k \in 1..Len(ix) |-> Sym(ix[k])]

\* '!', a character the alphabet does not hold
Bang == 32 + 1

\* the AC fields used: values 0, 6888 (the largest), 3429 (all three digits 9),
\* 6858 (all three digits 18) and 1670
ACFieldPool == <<<<0, 0>>, <<82, 82>>, <<41, 26>>, <<82, 52>>, <<20, 10>>>>

\* the number of AC fields a hash with size flag s declares
ACCount(s) == ((s % 9) + 1) * ((s \div 9) + 1) - 1

\* the hash with size flag s, quantisation symbol q, average-colour field dc and
\* the AC fields taken from the pool in turn, starting at off
MakeHash(s, q, dc, off) ==
    Text(<<s, q>> \o dc \o
         [k \in 1..(2 * ACCount(s)) |->
             ACFieldPool[((((k - 1) \div 2) + off) % Len(ACFieldPool)) + 1][((k - 1) % 2) + 1]])

\* average-colour fields: 0x000000, 0x808080, 0xFFFFFF, and 83^4 - 1
DCFields == {<<0, 0, 0, 0>>, <<14, 60, 37, 75>>, <<29, 28, 30, 10>>, <<82, 82, 82, 82>>}

SmallHashes ==
    {MakeHash(s, q, dc, off) : s \in {0, 1, 9, 10}, q \in {0, 40, 82}, dc \in DCFields,
                               off \in 0..2}

\* one hash for every symbol a first character can be
AllFlagHashes == {MakeHash(s, 40, <<14, 60, 37, 75>>, 0) : s \in 0..82}

BaseHashes == {MakeHash(s, 40, <<14, 60, 37, 75>>, 1) : s \in {0, 1, 9}}

\* a hash with one character replaced by '!', and a hash cut short
WithBadChar == UNION {{[h EXCEPT ![p] = Bang] : p \in 1..Len(h)} : h \in BaseHashes}
Truncated == UNION {{SubSeq(h, 1, Len(h) - n) : n \in 1..Len(h)} : h \in BaseHashes}

Punches == {<<>>} \cup {<<p>> : p \in 0..MaxPunch}

DecodeRequests ==
    [op : {"decodeBlurHash"}, blurHash : SmallHashes, width : 1..MaxWidth,
     height : 1..MaxHeight, punch : Punches]
    \cup [op : {"decodeBlurHash"}, blurHash : AllFlagHashes, width : {1}, height : {1},
          punch : {<<>>}]
    \cup [op : {"decodeBlurHash"}, blurHash : WithBadChar \cup Truncated,
          width : 1..MaxWidth, height : {1}, punch : {<<>>}]
    \cup [op : {"decodeBlurHash"}, blurHash : BaseHashes, width : (0 - 1)..MaxWidth,
          height : (0 - 1)..MaxHeight, punch : {<<>>}]

AverageRequests ==
    [op : {"getBlurHashAverageColor"},
     blurHash : {Text(<<0, 0>> \o dc) :
                    dc \in [1..4 -> {0, 41, 82}] \cup DCFields \cup {<<29, 28, 30, 11>>}}
                \cup WithBadChar \cup Truncated]

Decode83Requests ==
    UNION {[op : {"decode83"}, str : [1..n -> {Sym(0), Sym(1), Sym(41), Sym(82), Bang}],
            start : 0..(n - 1), end : 1..(n + 1)] : n \in 1..MaxStrLen}

\* arguments of fastCos: the multiples of PI / 4 from -MaxTurnsBack to MaxTurns
\* quarter turns, and their neighbours
FastCosRequests ==
    [op : {"fastCos"},
     x : {k * (PI \div 4) + e : k \in (0 - MaxTurnsBack)..MaxTurns, e \in (0 - 1)..1}]

Requests == DecodeRequests \cup AverageRequests \cup Decode83Requests \cup FastCosRequests

\* the call a page repeats while the player runs
PlayerRequests ==
    [op : {"decodeBlurHash"},
     blurHash : {MakeHash(1, 40, <<14, 60, 37, 75>>, 1)},
     width : {2}, height : {1}, punch : {<<>>}]

reqNone == [op |-> "none"]
retNone == [done |-> FALSE]
memoNone == [set |-> FALSE]

\* decodeBlurHash called while the player runs.  The first call is remembered
\* with the player's status at the time; again records a later call made with
\* the same arguments once that status has changed.
decodeCall ==
    /\ \E r \in PlayerRequests :
          /\ req' = r
          /\ ret' = [done |-> TRUE,
                     r |-> decodeBlurHash(r.blurHash, r.width, r.height, r.punch)]
          /\ memo' = IF memo.set
                     THEN [memo EXCEPT !.again =
                              memo.again \/ (r = memo.req /\ vars.status # memo.status)]
                     ELSE [set |-> TRUE, req |-> r, ret |-> ret', status |-> vars.status,
                           again |-> FALSE]
    /\ UNCHANGED <<args, vars, timers, sheet, out>>
    /\ Observe("decodeBlurHash")

\* one call of a function on arguments drawn at the start
decodeApply ==
    /\ req.op = "decodeBlurHash" /\ ~ret.done
    /\ ret' = [done |-> TRUE,
               r |-> decodeBlurHash(req.blurHash, req.width, req.height, req.punch)]
    /\ UNCHANGED <<args, vars, timers, sheet, out, req, memo, run>>

averageApply ==
    /\ req.op = "getBlurHashAverageColor" /\ ~ret.done
    /\ ret' = [done |-> TRUE, r |-> getBlurHashAverageColor(req.blurHash)]
    /\ UNCHANGED <<args, vars, timers, sheet, out, req, memo, run>>

decode83Apply ==
    /\ req.op = "decode83" /\ ~ret.done
    /\ ret' = [done |-> TRUE, r |-> decode83(req.str, req.start, req.end)]
    /\ UNCHANGED <<args, vars, timers, sheet, out, req, memo, run>>

fastCosApply ==
    /\ req.op = "fastCos" /\ ~ret.done
    /\ ret' = [done |-> TRUE, r |-> fastCosCall(req.x)]
    /\ UNCHANGED <<args, vars, timers, sheet, out, req, memo, run>>

---------------------------------------------------------------------------
(* Specifications *)

\* the player, from the state the constructor leaves, and the calls made meanwhile
Init ==
    \E c \in Pages :
        /\ args = constructor(c).args
        /\ sheet = constructor(c).sheet
        /\ out = constructor(c).out
        /\ vars = varsInit
        /\ timers = 0
        /\ req = reqNone
        /\ ret = retNone
        /\ memo = memoNone
        /\ run = runNone

Next ==
    \/ imageLoaded
    \/ start
    \/ stop
    \/ restart
    \/ tick
    \/ \E v \in 0..MaxFrameArg : setStartFrame(v)
    \/ \E v \in 0..MaxFrameArg : setLength(v)
    \/ dispose
    \/ decodeCall

Spec == Init /\ [][Next]_state

\* the same, with every pending timer firing in the end and the image loading
\* in the end: a callback passed to setTimeout (index.js:508, 518) is run once
\* its delay has passed, and the onload of an image given a data URL
\* (index.js:279-281) is run once it is decoded
SpecFair == Spec /\ WF_state(tick) /\ WF_state(imageLoaded)

\* the decoder's functions alone, each applied once to arguments of the sets above
DefaultPage ==
    [hashList |-> <<2>>, container |-> TRUE, columns |-> <<3>>, rows |-> <<1>>,
     timing |-> <<50>>, autoStart |-> FALSE, repeat |-> TRUE, startFrame |-> <<>>,
     length |-> <<>>]

InitCall ==
    /\ args = constructor(DefaultPage).args
    /\ sheet = constructor(DefaultPage).sheet
    /\ out = constructor(DefaultPage).out
    /\ vars = varsInit
    /\ timers = 0
    /\ req \in Requests
    /\ ret = retNone
    /\ memo = memoNone
    /\ run = runNone

NextCall == decodeApply \/ averageApply \/ decode83Apply \/ fastCosApply

SpecCall == InitCall /\ [][NextCall]_state

---------------------------------------------------------------------------
(* Vocabulary of the properties *)

InAlphabet(ch) == \E p \in 1..Len(digit) : digit[p] = ch

\* the value of the character at position k of str: its alphabet index, and -1
\* for a character outside the alphabet or a position past the end
SymbolValue(str, k) ==
    IF k < Len(str) /\ InAlphabet(str[k + 1])
    THEN CHOOSE i \in 0..82 : Sym(i) = str[k + 1]
    ELSE 0 - 1

\* the big-endian base-83 value of positions first..last-1, as a sum of powers
RECURSIVE PositionalValue(_, _, _)
PositionalValue(str, first, last) ==
    IF first >= last THEN 0
    ELSE SymbolValue(str, first) * (83 ^ (last - 1 - first))
         + PositionalValue(str, first + 1, last)

\* the number of coefficients the first character declares, read as the
\* format defines it
DeclaredSize(str) ==
    LET s == SymbolValue(str, 0)
    IN  ((s % 9) + 1) * ((s \div 9) + 1)

AllInAlphabet(str) == \A k \in 1..Len(str) : InAlphabet(str[k])

\* alphabet characters only, and as long as the declared grid needs
ValidHash(str) ==
    /\ Len(str) >= 6
    /\ AllInAlphabet(str)
    /\ Len(str) = 4 + 2 * DeclaredSize(str)

Decoded == ret.done /\ req.op = "decodeBlurHash"
Averaged == ret.done /\ req.op = "getBlurHashAverageColor"

---------------------------------------------------------------------------
(* Properties of decodeBlurHash, getBlurHashAverageColor and decode83 *)

\* C1: for a hash of alphabet characters whose length matches the grid its
\* first character declares, and positive width and height, decodeBlurHash
\* returns a buffer of exactly width * height * 4 bytes, stores every byte of
\* every pixel exactly once, stores nothing outside the buffer, and leaves 255
\* in every byte at an index 4k + 3.
DecodeFillsBuffer ==
    (Decoded /\ ValidHash(req.blurHash) /\ req.width > 0 /\ req.height > 0) =>
        /\ ret.r.returned
        /\ DOMAIN ret.r.pixels = 0..(req.width * req.height * 4 - 1)
        /\ \A k \in DOMAIN ret.r.pixels : ret.r.stores[k] = 1
        /\ ret.r.outside = {}
        /\ \A k \in DOMAIN ret.r.pixels : k % 4 = 3 => ret.r.pixels[k] = 255

\* a 2 x 2 grid decoded into two rows of two pixels
DecodeFillsBufferWitness ==
    /\ Decoded /\ ValidHash(req.blurHash)
    /\ req.width = 2 /\ req.height = 2
    /\ ret.r.head.numX = 2 /\ ret.r.head.numY = 2
    /\ ret.r.returned /\ ret.r.pixels[15] = 255 /\ ret.r.stores[15] = 1

PunchScalesCoefficients ==
    (Decoded /\ ValidHash(req.blurHash)) =>
        LET q == SymbolValue(req.blurHash, 1)
            n == IF Len(req.punch) = 0 THEN 1
                 ELSE IF req.punch[1] = 0 THEN 1 ELSE req.punch[1]
            expected == ((q + 1) * n * Fix) \div 13446
            h == ret.r.head
        IN  /\ h.maximumValue = expected
            /\ \A i \in 1..(h.size - 1) : \A c \in 0..2 :
                  h.colors[i * 3 + c] = signSqr(acDigits(h.acValues[i])[c + 1] - 9) * expected

\* C4: for a hash whose characters at positions 2..5 are in the alphabet,
\* getBlurHashAverageColor returns three integers [R, G, B], each in [0, 255].
AverageColorInByteRange ==
    (Averaged /\ Len(req.blurHash) >= 6
              /\ \A k \in 3..6 : InAlphabet(req.blurHash[k])) =>
        \A c \in 1..3 : ret.r[c] \in 0..255

\* C5: for 0 <= start < end <= len(str) and alphabet characters in between,
\* decode83(str, start, end) is the big-endian positional base-83 value, the
\* sum of alphabet_index(str[k]) * 83^(end-1-k), and is not negative.
Decode83Positional ==
    (/\ ret.done /\ req.op = "decode83"
     /\ 0 <= req.start /\ req.start < req.end /\ req.end <= Len(req.str)
     /\ \A k \in (req.start + 1)..req.end : InAlphabet(req.str[k])) =>
        /\ ret.r = PositionalValue(req.str, req.start, req.end)
        /\ ret.r >= 0

\* '1~' decoded out of a three-character string: 1 * 83 + 82
Decode83PositionalWitness ==
    /\ ret.done /\ req.op = "decode83"
    /\ Len(req.str) = 3 /\ req.start = 1 /\ req.end = 3
    /\ req.str[2] = Sym(1) /\ req.str[3] = Sym(82)
    /\ ret.r = 165

\* C6: for a size flag s in [0, 80] (the alphabet index of the first
\* character), numX = s mod 9 + 1, numY = s div 9 + 1 and the coefficient grid
\* holds size = numX * numY triples; s = 0 gives (1, 1), s = 8 gives (9, 1),
\* s = 72 gives (1, 9) and s = 80 gives (9, 9).
GridFromSizeFlag ==
    (Decoded /\ Len(req.blurHash) >= 1 /\ SymbolValue(req.blurHash, 0) \in 0..80) =>
        LET s == SymbolValue(req.blurHash, 0)
            h == ret.r.head
        IN  /\ h.sizeFlag = s
            /\ h.numX = (s % 9) + 1
            /\ h.numY = (s \div 9) + 1
            /\ h.size = h.numX * h.numY
            /\ DOMAIN h.colors = 0..(3 * h.numX * h.numY - 1)
            /\ (s = 0 => h.numX = 1 /\ h.numY = 1)
            /\ (s = 8 => h.numX = 9 /\ h.numY = 1)
            /\ (s = 72 => h.numX = 1 /\ h.numY = 9)
            /\ (s = 80 => h.numX = 9 /\ h.numY = 9)

\* the size flag 8, a grid of nine by one
GridFromSizeFlagWitness ==
    /\ Decoded /\ ValidHash(req.blurHash)
    /\ ret.r.head.sizeFlag = 8 /\ ret.r.head.numX = 9 /\ ret.r.head.numY = 1
    /\ ret.r.returned

\* C7 as stated: the value v of every AC field is in [0, 19^3), its three
\* base-19 digits are in [0, 18], each quantized component is in [-9, 9] and
\* every AC coefficient component is at most 81 * maximumValue in magnitude.
ACFieldBelow19Cubed ==
    (Decoded /\ ValidHash(req.blurHash)) =>
        LET h == ret.r.head
        IN  \A i \in 1..(h.size - 1) :
                LET v == h.acValues[i]
                    dg == <<v \div 361, (v \div 19) % 19, v % 19>>
                IN  /\ 0 <= v /\ v < 19 * 19 * 19
                    /\ \A c \in 1..3 :
                          /\ dg[c] \in 0..18
                          /\ dg[c] - 9 \in (0 - 9)..9
                          /\ h.colors[i * 3 + c - 1] <= 81 * h.maximumValue
                          /\ h.colors[i * 3 + c - 1] >= 0 - 81 * h.maximumValue

\* C7, amended: v is in [0, 83^2 - 1] = [0, 6888]; the first digit v div 361 is
\* in [0, 19] and the other two in [0, 18]; the quantized red component is in
\* [-9, 10] and the green and blue ones in [-9, 9]; each coefficient component
\* is signSqr(digit - 9) * maximumValue, so the red one is at most
\* 100 * maximumValue in magnitude and the other two at most 81 * maximumValue.
ACFieldRange ==
    (Decoded /\ ValidHash(req.blurHash)) =>
        LET h == ret.r.head
        IN  \A i \in 1..(h.size - 1) :
                LET v == h.acValues[i]
                    dg == <<v \div 361, (v \div 19) % 19, v % 19>>
                IN  /\ v = PositionalValue(req.blurHash, 4 + 2 * i, 6 + 2 * i)
                    /\ 0 <= v /\ v <= 83 * 83 - 1
                    /\ dg[1] \in 0..19 /\ dg[2] \in 0..18 /\ dg[3] \in 0..18
                    /\ \A c \in 1..3 :
                          h.colors[i * 3 + c - 1] = signSqr(dg[c] - 9) * h.maximumValue
                    /\ h.colors[i * 3] <= 100 * h.maximumValue
                    /\ h.colors[i * 3] >= 0 - 81 * h.maximumValue
                    /\ \A c \in 2..3 :
                          /\ h.colors[i * 3 + c - 1] <= 81 * h.maximumValue
                          /\ h.colors[i * 3 + c - 1] >= 0 - 81 * h.maximumValue

\* the field '~~', value 6888: digits 19, 1, 10 and a red component of 100 * maximumValue
ACFieldRangeWitness ==
    /\ Decoded /\ ValidHash(req.blurHash)
    /\ ret.r.head.maximumValue > 0
    /\ \E i \in 1..(ret.r.head.size - 1) :
          /\ ret.r.head.acValues[i] = 6888
          /\ ret.r.head.colors[i * 3] = 100 * ret.r.head.maximumValue

\* a hash with a character outside the alphabet
HasBadChar(str) == ~AllInAlphabet(str)

\* a hash one character shorter than the grid its first character declares needs
OneShort(str) ==
    /\ Len(str) >= 1 /\ AllInAlphabet(str)
    /\ Len(str) = 4 + 2 * DeclaredSize(str) - 1

\* C8 as stated: a hash with a character outside the alphabet is rejected with
\* InvalidCharacter and a hash one character short with TruncatedHash, and no
\* pixel buffer is returned.
MalformedHashRejected ==
    (Decoded /\ req.width > 0 /\ req.height > 0) =>
        /\ HasBadChar(req.blurHash) =>
              (ret.r.threw = "InvalidCharacter" /\ ~ret.r.returned)
        /\ OneShort(req.blurHash) =>
              (ret.r.threw = "TruncatedHash" /\ ~ret.r.returned)

\* C8, amended: decodeBlurHash rejects neither.  Given a hash with a character
\* outside the alphabet, or one character short, and positive width and height,
\* it raises no error and returns a buffer of width * height * 4 bytes; the bad
\* or missing character counts as -1 in the field it belongs to.
MalformedHashDecoded ==
    (/\ Decoded /\ req.width > 0 /\ req.height > 0
     /\ (HasBadChar(req.blurHash) \/ OneShort(req.blurHash))) =>
        LET h == ret.r.head
        IN  /\ ret.r.threw = "none" /\ ret.r.returned
            /\ DOMAIN ret.r.pixels = 0..(req.width * req.height * 4 - 1)
            /\ h.sizeFlag = SymbolValue(req.blurHash, 0)
            /\ h.maximumValue =
                  ((SymbolValue(req.blurHash, 1) + 1) * h.punchFactor * Fix) \div 13446
            /\ \A i \in 1..(h.size - 1) :
                  h.acValues[i] = PositionalValue(req.blurHash, 4 + 2 * i, 6 + 2 * i)

\* a hash of a 2 x 1 grid cut to seven characters: its AC field is read as the
\* seventh character followed by -1, and a buffer comes back
MalformedHashDecodedWitness ==
    /\ Decoded /\ OneShort(req.blurHash) /\ Len(req.blurHash) = 7
    /\ req.width = 2 /\ req.height = 1
    /\ ret.r.returned /\ Cardinality(DOMAIN ret.r.pixels) = 8
    /\ ret.r.head.acValues[1] = SymbolValue(req.blurHash, 6) * 83 - 1

\* C9: for any string and positive width and height, decodeBlurHash does not
\* throw, reads no hash position >= len(hash), and uses no index of the
\* coefficient grid outside [0, 3 * size) nor of the pixel buffer outside
\* [0, width * height * 4).
DecodeStaysInBounds ==
    (Decoded /\ req.width > 0 /\ req.height > 0) =>
        LET h == ret.r.head
        IN  /\ ret.r.threw = "none"
            /\ h.hashReads \subseteq 0..(h.hashLen - 1)
            /\ h.colorStores \subseteq 0..(3 * h.size - 1)
            /\ h.colorLoads \subseteq 0..(3 * h.size - 1)
            /\ ret.r.outside = {}

\* C10: for a valid hash and width <= 0 or height <= 0, decodeBlurHash raises
\* no error and returns a buffer of length zero.
NonPositiveSizeGivesEmptyBuffer ==
    (Decoded /\ ValidHash(req.blurHash) /\ (req.width <= 0 \/ req.height <= 0)) =>
        /\ ret.r.threw = "none" /\ ret.r.returned
        /\ DOMAIN ret.r.pixels = {}

\* |a - b|
Dist(a, b) == IF a >= b THEN a - b ELSE b - a

\* the sum of channel c (0, 1, 2) of the first k coefficient triples
RECURSIVE ChannelSum(_, _, _)
ChannelSum(colors, k, c) ==
    IF k <= 0 THEN 0 ELSE colors[(k - 1) * 3 + c] + ChannelSum(colors, k - 1, c)

\* the byte a linear value is stored as
ByteOf(v) == Clamp8(linearTosRGB(v))

\* C11 as stated: with width = 1 and height = 1, decodeBlurHash on a valid hash
\* returns exactly 4 bytes whose RGB are within 2 of the colour of the DC term,
\* whatever the AC coefficients.
OnePixelIsDCColor ==
    (Decoded /\ ValidHash(req.blurHash) /\ req.width = 1 /\ req.height = 1) =>
        /\ ret.r.returned /\ DOMAIN ret.r.pixels = 0..3
        /\ \A c \in 0..2 : Dist(ret.r.pixels[c], ByteOf(ret.r.head.colors[c])) <= 2

\* C11, amended: with width = 1 and height = 1, decodeBlurHash on a valid hash
\* returns exactly 4 bytes, alpha 255, whose RGB are within 2 of the colour of
\* the sum of all the coefficients of the grid, the DC term and every AC term
\* (every basis function is 1 at the only pixel); that is the colour of the DC
\* term when the grid is 1 x 1.
OnePixelIsCoefficientSum ==
    (Decoded /\ ValidHash(req.blurHash) /\ req.width = 1 /\ req.height = 1) =>
        LET h == ret.r.head
        IN  /\ ret.r.returned /\ DOMAIN ret.r.pixels = 0..3
            /\ ret.r.pixels[3] = 255
            /\ \A c \in 0..2 :
                  /\ Dist(ret.r.pixels[c], ByteOf(ChannelSum(h.colors, h.size, c))) <= 2
                  /\ h.size = 1 => Dist(ret.r.pixels[c], ByteOf(h.colors[c])) <= 2

\* a hash with AC terms decoded to one pixel that is the colour of the sum and
\* far from the colour of the DC term
OnePixelIsCoefficientSumWitness ==
    /\ Decoded /\ ValidHash(req.blurHash) /\ req.width = 1 /\ req.height = 1
    /\ ret.r.head.size > 1
    /\ \E c \in 0..2 :
          /\ Dist(ret.r.pixels[c], ByteOf(ret.r.head.colors[c])) > 50
          /\ Dist(ret.r.pixels[c],
                  ByteOf(ChannelSum(ret.r.head.colors, ret.r.head.size, c))) <= 2

\* C12: for a 6-character hash of alphabet characters with size flag 0 and
\* positive width and height, all pixels of decodeBlurHash's output have the
\* same RGB, and each channel is within 2 of the corresponding channel that
\* getBlurHashAverageColor returns.
FlatImageIsAverageColor ==
    (/\ Decoded /\ Len(req.blurHash) = 6 /\ AllInAlphabet(req.blurHash)
     /\ SymbolValue(req.blurHash, 0) = 0 /\ req.width > 0 /\ req.height > 0) =>
        LET average == getBlurHashAverageColor(req.blurHash)
        IN  /\ ret.r.returned
            /\ \A k \in DOMAIN ret.r.pixels :
                  /\ ret.r.pixels[k] = ret.r.pixels[k % 4]
                  /\ (k % 4) < 3 => Dist(ret.r.pixels[k], average[(k % 4) + 1]) <= 2

\* C13 as stated: for an argument of either sign and any magnitude, fastCos
\* applies its polynomial to the phase-shifted argument reduced into (-PI, PI],
\* and the reduction loop terminates.
FastCosReducesEveryArgument ==
    (ret.done /\ req.op = "fastCos") =>
        /\ ret.r.reduced > 0 - PI /\ ret.r.reduced <= PI
        /\ ret.r.steps >= 0
        /\ ret.r.value = fastCosPoly(ret.r.reduced)

\* C13, amended: for an argument x >= -3 PI / 2, that is x + PI / 2 > -PI, of
\* either sign (every argument the decoder passes is >= 0), fastCos applies its
\* polynomial to the phase-shifted argument reduced into (-PI, PI] by whole
\* turns, and the loop terminates, after the least number of subtractions that
\* brings the argument to PI or below; an argument below -3 PI / 2 is not
\* reduced at all.
FastCosReducesFromAbove ==
    (ret.done /\ req.op = "fastCos") =>
        LET shifted == req.x + (PI \div 2)
        IN  /\ ret.r.steps >= 0
            /\ ret.r.reduced = shifted - ret.r.steps * PI2
            /\ ret.r.value = fastCosPoly(ret.r.reduced)
            /\ ret.r.reduced <= PI
            /\ ret.r.steps > 0 => ret.r.reduced + PI2 > PI
            /\ shifted > 0 - PI => ret.r.reduced > 0 - PI
            /\ shifted <= 0 - PI => (ret.r.steps = 0 /\ ret.r.reduced = shifted)

\* an argument several turns up, brought down by more than one subtraction
FastCosReducesFromAboveWitness ==
    /\ ret.done /\ req.op = "fastCos"
    /\ req.x > 4 * PI /\ ret.r.steps >= 2
    /\ ret.r.reduced > 0 - PI /\ ret.r.reduced <= PI

---------------------------------------------------------------------------
(* Properties of the player *)

\* a step of the player, whose effects out' holds
PlayerStep == run'.last # "decodeBlurHash"

\* C14: once the sheet has loaded, and after any sequence of start, stop,
\* restart and timer ticks, a start() called while status is not 'playing'
\* invokes onStart once, displays the current frame, and leaves status 'playing'
\* with one timer pending, unless that frame completes a non-repeating pass.
StartStartsPlayback ==
    [][(/\ run'.last = "start" /\ sheet = "loaded" /\ run.plain
        /\ vars.status # "playing") =>
          /\ Count(out'.calls, "onStart") = 1
          /\ out'.shown = <<vars.frame>>
          /\ (args.repeat \/ vars.frame < vars.endFrame) =>
                (vars'.status = "playing" /\ timers' = 1)]_state

\* C15: if stop() is called while status is 'playing' then, pending timers
\* firing in the end, status becomes 'stopped'; onStop is invoked exactly once
\* for that stop, and no frame is displayed between the stop() call and the
\* next start() or restart() call.
StopStopsPlayback ==
    /\ (vars.stopRequested /\ vars.status = "playing") ~> (vars.status = "stopped")
    /\ [](run.halting => run.halts <= 1)
    /\ [][PlayerStep =>
             Count(out'.calls, "onStop") =
                (IF vars.stopRequested /\ ~vars'.stopRequested THEN 1 ELSE 0)]_state
    /\ [][(PlayerStep /\ run.halting /\ run'.halting) => out'.shown = <<>>]_state

\* C16: when restart() returns on a loaded sheet, after any sequence of start,
\* stop, restart and timer ticks, status is 'playing' and the next frame
\* displayed is startFrame (displayed by the call itself if the player was
\* stopped, else the frame the pending timer will display), whether the player
\* was playing or stopped.
RestartRunsFromStart ==
    [][(run'.last = "restart" /\ sheet = "loaded" /\ run.plain) =>
          /\ vars'.status = "playing"
          /\ \/ out'.shown = <<vars.startFrame>>
             \/ (out'.shown = <<>> /\ vars'.frame = vars.startFrame)]_state

\* a non-repeating run in progress that no stop() interrupted, of a player
\* constructed with a startFrame S and a length L that satisfy 1 <= S, L >= 1,
\* S + L - 1 <= columns * rows
PlainPass ==
    /\ run.clean /\ run.plain /\ ~args.repeat
    /\ ~IsFalse(args.startFrame) /\ ~IsFalse(args.length)
    /\ Num(args.startFrame) >= 1 /\ Num(args.length) >= 1
    /\ Num(args.startFrame) + Num(args.length) - 1 <= Num(args.columns) * Num(args.rows)

\* C17: with repeat false, such options S and L and no stop() call, a run displays, and
\* reports through onProgress, exactly the frames S, S+1, ..., S+L-1 in that
\* order, each once; then onComplete is invoked exactly once, status becomes
\* 'stopped', the current frame is S again and no timer is pending.  Until then
\* status is 'playing' with one timer pending for the next frame.
RunPlaysEachFrameOnce ==
    /\ [](PlainPass =>
            LET S == Num(args.startFrame)
                L == Num(args.length)
                n == Len(run.frames)
            IN  /\ n <= L
                /\ \A i \in 1..n : run.frames[i] = S + i - 1
                /\ n < L => /\ run.done = 0 /\ vars.status = "playing"
                            /\ timers = 1 /\ vars.frame = S + n
                /\ n = L => /\ run.done = 1 /\ vars.status = "stopped"
                            /\ timers = 0 /\ vars.frame = S)
    /\ [][(PlayerStep /\ PlainPass') =>
             /\ Count(out'.calls, "onProgress") = Len(out'.shown)
             /\ Count(out'.calls, "onComplete") =
                   (IF out'.shown = <<Num(args.startFrame) + Num(args.length) - 1>>
                    THEN 1 ELSE 0)]_state

\* a pass of frames 2 and 3 over: completed once, stopped, back at frame 2
RunPlaysEachFrameOnceWitness ==
    /\ PlainPass /\ run.last = "tick"
    /\ Num(args.startFrame) = 2 /\ Num(args.length) = 2
    /\ run.frames = <<2, 3>> /\ run.done = 1
    /\ vars.status = "stopped" /\ vars.frame = 2 /\ timers = 0
    /\ out.calls = <<"onProgress", "onComplete">>

\* a repeating run in progress that no stop() interrupted, of a player left
\* with the options it was constructed with
RepeatingRun == run.clean /\ run.plain /\ args.repeat

\* C18: with repeat true and no stop() call the displayed frames cycle
\* startFrame..endFrame for ever: the frames of a pass are startFrame,
\* startFrame + 1, ... in that order, the display of endFrame is followed by
\* exactly one onRepeat call and the next frame displayed is startFrame;
\* onComplete is never invoked, status is never 'stopped' and a timer is always
\* pending for the next frame.
RepeatCyclesForever ==
    /\ [](RepeatingRun =>
            LET n == Len(run.frames)
            IN  /\ n <= vars.endFrame - vars.startFrame
                /\ \A i \in 1..n : run.frames[i] = vars.startFrame + i - 1
                /\ vars.frame = vars.startFrame + n
                /\ vars.status = "playing" /\ timers = 1
                /\ run.done = 0)
    /\ [][(PlayerStep /\ RepeatingRun') =>
             /\ Count(out'.calls, "onComplete") = 0
             /\ Count(out'.calls, "onRepeat") =
                   (IF out'.shown = <<vars'.endFrame>> THEN 1 ELSE 0)
             /\ out'.shown = <<vars'.endFrame>> => vars'.frame = vars'.startFrame]_state

\* the end of a pass: frame 3 displayed by a timer, onRepeat called, frame 1 next
RepeatCyclesForeverWitness ==
    /\ RepeatingRun /\ run.last = "tick"
    /\ out.shown = <<3>> /\ out.calls = <<"onProgress", "onRepeat">>
    /\ vars.startFrame = 1 /\ vars.endFrame = 3 /\ vars.frame = 1
    /\ run.frames = <<>> /\ vars.status = "playing" /\ timers = 1

\* a required option was left out of the page's options, or the hash list is
\* empty (timings is never supplied by the pages modelled)
Incomplete ==
    \/ IsFalse(args.hashList) \/ ~args.container \/ IsFalse(args.columns)
    \/ IsFalse(args.rows) \/ IsFalse(args.timing) \/ args.hashList = <<0>>

\* C19: when hashList, container, columns or rows is not supplied, or no
\* timing is, or hashList is empty, the constructor reports an error and
\* stops: it decodes no hash, creates no sprite-sheet image (so none ever
\* loads), schedules no timer and leaves status 'stopped'.
ConstructorRejectsIncompleteOptions ==
    Incomplete =>
        /\ sheet = "none"
        /\ out.decodes = 0
        /\ run.last # "imageLoaded"
        /\ ~run.called => /\ out.calls = <<"console.error">>
                          /\ timers = 0
                          /\ vars.status = "stopped"

\* the constructor given an empty hash list, and a decodeBlurHash call after it
ConstructorRejectsIncompleteOptionsWitness ==
    /\ Incomplete /\ args.hashList = <<0>> /\ ~run.called
    /\ run.last = "decodeBlurHash"
    /\ sheet = "none" /\ out.calls = <<"console.error">> /\ out.decodes = 0

\* C20: for every hash whose first character is in the alphabet (values
\* 0..82), the grid dimensions decodeBlurHash computes satisfy
\* 1 <= numX <= 9 and 1 <= numY <= 9.
GridDimensionsAtMostNine ==
    (Decoded /\ Len(req.blurHash) >= 1 /\ SymbolValue(req.blurHash, 0) \in 0..82) =>
        /\ ret.r.head.numX >= 1 /\ ret.r.head.numX <= 9
        /\ ret.r.head.numY >= 1 /\ ret.r.head.numY <= 9

\* C20, as the code has it: numX is in 1..9 and numY in 1..10; numY is 10 for
\* the size flags 81 and 82 (first characters '}' and '~'), whose grids are
\* one by ten and two by ten, and at most 9 for the size flags 0..80.
GridDimensionsAtMostTenRows ==
    (Decoded /\ Len(req.blurHash) >= 1 /\ SymbolValue(req.blurHash, 0) \in 0..82) =>
        LET s == SymbolValue(req.blurHash, 0)
            h == ret.r.head
        IN  /\ h.numX >= 1 /\ h.numX <= 9
            /\ h.numY >= 1 /\ h.numY <= 10
            /\ (h.numY = 10 <=> s >= 81)
            /\ (s = 81 => h.numX = 1)
            /\ (s = 82 => h.numX = 2)
            /\ h.size = h.numX * h.numY /\ h.size <= 81

\* the size flag 82, a grid of two by ten
GridDimensionsAtMostTenRowsWitness ==
    /\ Decoded /\ Len(req.blurHash) >= 1 /\ SymbolValue(req.blurHash, 0) = 82
    /\ ret.r.head.numX = 2 /\ ret.r.head.numY = 10

\* C21: for a hash of length 4 + 2 + 2 * (numX * numY - 1) the fields
\* decodeBlurHash reads partition the hash: position 0 (size flag), position 1
\* (quantization), positions 2..5 (average colour) and positions 4 + 2k and
\* 5 + 2k for each AC index k in 1..size-1; every position below the length is
\* in exactly one field, no field reaches the length, and AC field k fills the
\* coefficient triple k, the one the synthesis loads at (i + j * numX) * 3.
FieldsPartitionHash ==
    (Decoded /\ ValidHash(req.blurHash)) =>
        LET h == ret.r.head
            f == h.fields
            len == Len(req.blurHash)
        IN  /\ h.size = DeclaredSize(req.blurHash)
            /\ len = 4 + 2 + 2 * (h.numX * h.numY - 1)
            /\ Len(f) = 3 + (h.size - 1)
            /\ f[1] = [start |-> 0, end |-> 1]
            /\ f[2] = [start |-> 1, end |-> 2]
            /\ f[3] = [start |-> 2, end |-> 6]
            /\ \A k \in 1..(h.size - 1) : f[3 + k] = [start |-> 4 + 2 * k, end |-> 6 + 2 * k]
            /\ \A p \in 0..(len - 1) :
                  Cardinality({n \in 1..Len(f) : f[n].start <= p /\ p < f[n].end}) = 1
            /\ \A n \in 1..Len(f) : f[n].start < f[n].end /\ f[n].end <= len
            /\ h.hashReads = 0..(len - 1)
            /\ \A k \in 1..(h.size - 1) :
                  LET v == PositionalValue(req.blurHash, 4 + 2 * k, 6 + 2 * k)
                  IN  /\ h.colors[3 * k] = signSqr((v \div 361) - 9) * h.maximumValue
                      /\ h.colors[3 * k + 1] = signSqr(((v \div 19) % 19) - 9) * h.maximumValue
                      /\ h.colors[3 * k + 2] = signSqr((v % 19) - 9) * h.maximumValue
            /\ (req.width > 0 /\ req.height > 0) =>
                  h.colorLoads = {(i + j * h.numX) * 3 + c :
                                     i \in 0..(h.numX - 1), j \in 0..(h.numY - 1), c \in 0..2}
            /\ (req.width > 0 /\ req.height > 0) => h.colorLoads = 0..(3 * h.size - 1)

\* a two by two grid: twelve characters, the last AC field at positions 10, 11
\* filling the triple of i = 1, j = 1
FieldsPartitionHashWitness ==
    /\ Decoded /\ ValidHash(req.blurHash) /\ ret.r.returned
    /\ ret.r.head.numX = 2 /\ ret.r.head.numY = 2 /\ Len(req.blurHash) = 12
    /\ ret.r.head.fields[6] = [start |-> 10, end |-> 12]
    /\ ret.r.head.acValues[3] # ret.r.head.acValues[2]
    /\ ret.r.head.colors[9] # ret.r.head.colors[6]

\* the options ask for frames past the end of the sheet (index.js:408-409)
Overlong(a) ==
    /\ ~IsFalse(a.length)
    /\ Num(a.startFrame) + Num(a.length) - 1 > Num(a.columns) * Num(a.rows)

\* playback reset to the whole sheet, frame 1 being the next one displayed:
\* displayed by the step itself, or the frame the next animate() will display
ResetToWholeSheet ==
    /\ vars'.startFrame = 1
    /\ vars'.length = Num(args.columns) * Num(args.rows)
    /\ vars'.endFrame = Num(args.columns) * Num(args.rows)
    /\ \/ out'.shown = <<1>>
       \/ out'.shown = <<>> /\ vars'.frame = 1

\* C22, at construction: when the image has loaded with options whose
\* startFrame + length - 1 exceeds columns * rows, playback is reset to the
\* whole sheet.
OverlongOptionsResetPlayback ==
    [][(run'.last = "imageLoaded" /\ Overlong(args')) => ResetToWholeSheet]_state

\* C22: whenever startFrame + length - 1 exceeds columns * rows, at
\* construction or through setLength on a loaded sheet, playback is reset to
\* the whole sheet: startFrame becomes 1, length and endFrame become
\* columns * rows, and the next frame displayed is frame 1.
OverlongLengthResetsPlayback ==
    [][(run'.last \in {"imageLoaded", "setLength"} /\ sheet' = "loaded" /\ Overlong(args'))
          => ResetToWholeSheet]_state

\* C23: after dispose() the animation stops: no later animate() call, from a
\* pending timer or from start() or restart(), displays a frame, invokes a
\* callback (onStart is start()'s own call, made before animate()) or schedules
\* another timer.
AnimateStopsAfterDispose ==
    [][(vars.dispose /\ run'.last \in {"tick", "start", "restart"}) =>
          /\ out'.shown = <<>>
          /\ \A k \in 1..Len(out'.calls) : out'.calls[k] = "onStart"
          /\ timers' = timers - (IF run'.last = "tick" THEN 1 ELSE 0)]_state

===========================================================================
